---- MODULE Spec2Model ----
(***************************************************************************)
(* A model of the rlo_cb callback plugin (plugins/callback/rlo_cb.py) and  *)
(* of its transformers (plugins/module_utils/transformers).                *)
(*                                                                         *)
(* Text is a sequence of code points (chr(7) is 7, "<" is 60).  A result   *)
(* payload is a function from keys to values.  An exception raised in a    *)
(* handler ends the handler where it is raised: what the handler did       *)
(* before stays done, and lastEvent.raised names the exception.            *)
(***************************************************************************)
EXTENDS Integers, Sequences, FiniteSets, TLC

\* ------------------------------------------------------------------ bounds
\* number of progress slots the run may create (calls of Progress.add_task)
MaxSlots == 2
\* the run's clock stops advancing here
MaxClock == 1
\* longest text handed to a transformer
MaxStrLen == 3
\* most keys in a result payload handed to a result shaper
MaxResultKeys == 2
\* highest verbosity (-vvvv); the code compares verbosity with 1, 2 and 3
MaxVerbosity == 4
\* the banner count of one run of a role saturates here
MaxBanners == 2
\* most items in a dict, list or tuple handed to transform_dict
MaxItems == 2
\* the count of the calls of Live.stop saturates here
MaxStops == 2
\* the prints of one handler that may raise: the first MaxPrints
MaxPrints == 5

Hosts == {"h1", "h2"}
\* task._role._role_name, or the sentinel "None" of _get_task_infos
Roles == {"None", "web", "db"}
Statuses == {"ok", "skipped", "failed", "unreachable"}
Verbosities == 0..MaxVerbosity

\* Python's None, for the fields __init__ sets to None
PyNone == "<None>"
\* a host that is no key of self._hosts
NoSlot == -1
\* no elapsed value passed to _log_task (elapsed = None)
NoElapsed == -1

\* ------------------------------------------------------------ text helpers
Restrict(f, S) == [k \in S |-> f[k]]

Put(f, k, v) == [x \in (DOMAIN f) \cup {k} |-> IF x = k THEN v ELSE f[x]]

EmptyDict == [k \in {} |-> TRUE]

StringsUpTo(alphabet, n) == UNION {[1..m -> alphabet] : m \in 0..n}

\* str.replace(chr(c), rep): every occurrence of the one character c
RECURSIVE Replace(_, _, _)
Replace(s, c, rep) ==
    IF \A i \in DOMAIN s : s[i] # c THEN s
    ELSE IF Len(s) = 1 THEN (IF s[1] = c THEN rep ELSE s)
    ELSE LET half == Len(s) \div 2
         IN Replace(SubSeq(s, 1, half), c, rep) \o Replace(SubSeq(s, half + 1, Len(s)), c, rep)

\* -------------------------------------------------------------- sanitizer
\* BLACKLISTED_BYTES, in the order the dict literal lists them:
\* 0x07 "<BEL>", 0x08 "<BS>", 0x0C "<FF>", 0x0D "<CR>", 0x1B "<ESC>", 0x7F "<DEL>"
BLACKLISTED_BYTES_NoEsc ==
    << <<7,   <<60, 66, 69, 76, 62>> >>,
       <<8,   <<60, 66, 83, 62>> >>,
       <<12,  <<60, 70, 70, 62>> >>,
       <<13,  <<60, 67, 82, 62>> >>,
       <<127, <<60, 68, 69, 76, 62>> >> >>

BLACKLISTED_BYTES ==
    << <<7,   <<60, 66, 69, 76, 62>> >>,
       <<8,   <<60, 66, 83, 62>> >>,
       <<12,  <<60, 70, 70, 62>> >>,
       <<13,  <<60, 67, 82, 62>> >>,
       <<27,  <<60, 69, 83, 67, 62>> >>,
       <<127, <<60, 68, 69, 76, 62>> >> >>

\* the loop of Sanitizer.transform from entry i on
RECURSIVE SanitizeFrom(_, _)
SanitizeFrom(current, i) ==
    IF i > Len(BLACKLISTED_BYTES) THEN current
    ELSE SanitizeFrom(Replace(current, BLACKLISTED_BYTES[i][1], BLACKLISTED_BYTES[i][2]), i + 1)

SanitizerTransform(input) == SanitizeFrom(input, 1)

IdentityTransform(input) == input

\* "RLODUMMYTRANSFORMER"
DummyTransform(input) ==
    <<82, 76, 79, 68, 85, 77, 77, 89, 84, 82, 65, 78, 83, 70, 79, 82, 77, 69, 82>>

\* transform of a transformer class of the user's own (any subclass of
\* BaseRLOTransformer found relative to the execution directory): this one
\* starts a terminal colour sequence, it puts ESC before its input
HighlightTransform(input) == <<27>> \o input

\* the six control bytes, tab, line feed, "<", ">", "B", "S"
Alphabet == {7, 8, 12, 13, 27, 127, 9, 10, 60, 62, 66, 83}

\* ---------------------------------------------------------- transform_dict
\* A Python value is [t, s, keys, items]: its type t; the code points s of a
\* str or of a scalar's repr; the keys of a dict in insertion order; and the
\* items of a dict (its values, in the order of its keys), list or tuple.
PyStr(s) == [t |-> "str", s |-> s, keys |-> <<>>, items |-> <<>>]
PyScalar(t, repr) == [t |-> t, s |-> repr, keys |-> <<>>, items |-> <<>>]
PyDict(keys, items) == [t |-> "dict", s |-> <<>>, keys |-> keys, items |-> items]
PyList(items) == [t |-> "list", s |-> <<>>, keys |-> <<>>, items |-> items]
PyTuple(items) == [t |-> "tuple", s |-> <<>>, keys |-> <<>>, items |-> items]
\* what a generator expression evaluates to: an iterator over the items
PyGenerator(items) == [t |-> "generator", s |-> <<>>, keys |-> <<>>, items |-> items]

\* 1, 1.5, True and None
PyScalars ==
    { PyScalar("int", <<49>>), PyScalar("float", <<49, 46, 53>>),
      PyScalar("bool", <<84, 114, 117, 101>>), PyScalar("NoneType", <<>>) }

\* get_transform_callback(transformer): the transform method of the instance
TransformCallback(transformer, input) ==
    CASE transformer = "Sanitizer" -> SanitizerTransform(input)
      [] transformer = "Identity"  -> IdentityTransform(input)
      [] transformer = "Dummy"     -> DummyTransform(input)
      [] transformer = "Highlight" -> HighlightTransform(input)

\* "<RLO error - unrecognized type - {type(data)}>", for bytes and set
UnrecognizedType(data) ==
    PyStr(<<60, 82, 76, 79, 32, 101, 114, 114, 111, 114, 32, 45, 32, 117, 110, 114, 101, 99, 111, 103, 110, 105, 122, 101, 100, 32, 116, 121, 112, 101, 32, 45, 32>>
          \o (IF data.t = "bytes" THEN <<60, 99, 108, 97, 115, 115, 32, 39, 98, 121, 116, 101, 115, 39, 62>> ELSE <<60, 99, 108, 97, 115, 115, 32, 39, 115, 101, 116, 39, 62>>)
          \o <<62>>)

RECURSIVE transform_dict(_, _)
transform_dict(data, callback) ==
    IF data.t = "str" THEN PyStr(TransformCallback(callback, data.s))
    ELSE IF data.t = "dict"
    THEN PyDict(data.keys,
                [i \in DOMAIN data.items |-> transform_dict(data.items[i], callback)])
    ELSE IF data.t = "tuple"
    THEN PyGenerator([i \in DOMAIN data.items |-> transform_dict(data.items[i], callback)])
    ELSE IF data.t = "list"
    THEN PyList([i \in DOMAIN data.items |-> transform_dict(data.items[i], callback)])
    ELSE IF data.t \in {"NoneType", "int", "float", "bool"} THEN data
    ELSE UnrecognizedType(data)

\* the values handed to transform_dict: scalars and a str, containers of
\* them, and containers of one such container
DictKeys == <<"k1", "k2", "k3">>
PyLeaves == PyScalars \cup {PyStr(<<27>>)}

\* the keys of a dict of n items
KeysOf(n) == {k \in [1..n -> 1..Len(DictKeys)] : \A i \in 1..n, j \in 1..n : i < j => k[i] < k[j]}

ContainersOf(S) ==
    {PyList(s) : s \in StringsUpTo(S, MaxItems)}
      \cup {PyTuple(s) : s \in StringsUpTo(S, MaxItems)}
      \cup UNION {{PyDict([i \in DOMAIN k |-> DictKeys[k[i]]], s) : k \in KeysOf(Len(s))} :
                    s \in StringsUpTo(S, MaxItems)}

PyValues ==
    PyLeaves \cup ContainersOf(PyLeaves)
      \cup UNION {{PyList(<<c>>), PyTuple(<<c>>), PyDict(<<"k1">>, <<c>>)} :
                    c \in ContainersOf(PyLeaves)}

\* ------------------------------------------- user transformer resolution
\* An option value is a sequence of tokens: "/" or a name without a slash;
\* "/Identity" is <<"/", "Identity">>.  A part of it is a sequence of names.
TransformerOptions ==
    { <<"/", "Identity">>,                    \* the default
      <<"/", "Dummy">>,
      <<"rlo.transformers", "/", "Dummy">>,
      <<"mytransformers", "/", "Highlight">>, \* a class of the user's own
      <<"Identity">>,                         \* no slash
      <<"a", "/", "b", "/", "Identity">>,     \* two slashes
      <<"nomod", "/", "Identity">>,           \* no such module
      <<"/", "Missing">>,                     \* no such attribute
      <<"/", "importlib">>,                   \* a module, not a type
      <<"/", "ABC">>,                         \* a type, no BaseRLOTransformer
      <<"/", "BaseRLOTransformer">> }         \* abstract

\* str.split("/")
RECURSIVE SplitFrom(_, _)
SplitFrom(s, cur) ==
    IF s = <<>> THEN <<cur>>
    ELSE IF Head(s) = "/" THEN <<cur>> \o SplitFrom(Tail(s), <<>>)
    ELSE SplitFrom(Tail(s), Append(cur, Head(s)))

Split(s) == SplitFrom(s, <<>>)

Ok(v) == [ok |-> TRUE, val |-> v]
Err(e) == [ok |-> FALSE, val |-> e]

\* what getattr finds in the namespace of the transformers package
\* (its __init__.py): a concrete transformer class, the abstract base, another
\* type, a value that is no type, or nothing
AttrKind(module, name) ==
    IF module = <<"mytransformers">>
    THEN (IF name = <<"Highlight">> THEN "transformer" ELSE "missing")
    ELSE IF module # <<"rlo.transformers">> THEN "missing"
    ELSE IF name \in {<<"Identity">>, <<"Dummy">>, <<"Sanitizer">>} THEN "transformer"
    ELSE IF name = <<"BaseRLOTransformer">> THEN "abstract"
    ELSE IF name \in {<<"ABC">>, <<"abstractclassmethod">>} THEN "type"
    ELSE IF name \in {<<"importlib">>, <<"sys">>, <<"types">>, <<"abstractmethod">>,
                      <<"arbitrary_import">>, <<"get_transformer_class">>,
                      <<"init_transformer">>, <<"get_transform_callback">>} THEN "value"
    ELSE "missing"

\* importlib.import_module succeeds for the package itself and for the
\* user's module in the execution directory
ArbitraryImport(module) ==
    IF module \in {<<"rlo.transformers">>, <<"mytransformers">>}
    THEN Ok(module) ELSE Err("ModuleNotFoundError")

GetTransformerClass(module, name) ==
    IF ~ArbitraryImport(module).ok THEN ArbitraryImport(module)
    ELSE IF AttrKind(module, name) = "missing" THEN Err("AttributeError")
    ELSE IF AttrKind(module, name) = "value" THEN Err("TypeError")
    ELSE IF AttrKind(module, name) = "type" THEN Err("TypeError")
    ELSE Ok(name)

\* cls(): the abstract base cannot be instantiated
InitTransformer(module, name) ==
    LET cls == GetTransformerClass(module, name) IN
    IF ~cls.ok THEN cls
    ELSE IF AttrKind(module, name) = "abstract" THEN Err("TypeError")
    ELSE Ok(name[1])

\* _transform_dict, the branch taken while no user transformer is cached
ResolveUserTransformer(option) ==
    LET parts == Split(option) IN
    IF Len(parts) # 2 THEN Err("ValueError")
    ELSE InitTransformer(IF parts[1] = <<>> THEN <<"rlo.transformers">> ELSE parts[1],
                         parts[2])

\* ----------------------------------------------------- visibility policy
\* a task: [role, action, no_log, vars]
TaskVarsSet == {EmptyDict, [greeting |-> "hi"]}

RunIsVerbose(vb, level) == vb > level

ShouldLogTask_Vvv(vb, opts, task, changed, status) ==
    \/ RunIsVerbose(vb, 2)
    \/ task.action = "debug" /\ ~task.no_log
    \/ status = "failed" \/ status = "unreachable"
    \/ status = "skipped" /\ opts.display_skipped_hosts
    \/ status = "ok" /\ (changed \/ opts.display_ok_hosts)

ShouldLogTask(vb, opts, task, changed, status) ==
    IF RunIsVerbose(vb, 1) THEN TRUE
    ELSE IF task.action = "debug" /\ ~task.no_log THEN TRUE
    ELSE IF status = "failed" \/ status = "unreachable" THEN TRUE
    ELSE IF status = "skipped" /\ (opts.display_skipped_hosts \/ RunIsVerbose(vb, 2)) THEN TRUE
    ELSE IF status = "ok" /\ (changed \/ opts.display_ok_hosts \/ RunIsVerbose(vb, 2)) THEN TRUE
    ELSE FALSE

ShouldPrintComprehensiveTaskResult_Unreachable(vb, task, status) ==
    IF RunIsVerbose(vb, 3) THEN TRUE
    ELSE IF status \in {"failed", "unreachable"} THEN TRUE
    ELSE IF task.action = "debug" /\ ~task.no_log THEN TRUE
    ELSE FALSE

ShouldPrintComprehensiveTaskResult(vb, task, status) ==
    IF RunIsVerbose(vb, 3) THEN TRUE
    ELSE IF status = "failed" THEN TRUE
    ELSE IF task.action = "debug" /\ ~task.no_log THEN TRUE
    ELSE FALSE

ShouldPrintReducedTaskResult(vb, changed, status) ==
    IF RunIsVerbose(vb, 1) THEN TRUE
    ELSE IF status = "ok" /\ changed THEN TRUE
    ELSE FALSE

\* --------------------------------------------------------- result shaper
ResultKeys == {"stdout", "stdout_lines", "stderr", "stderr_lines", "msg", "diff",
               "skipped", "invocation", "changed", "_ansible_no_log"}

\* the keys strip_internal_keys removes (they start with "_ansible_")
InternalKeys == {"_ansible_no_log"}

\* a diff is a list: empty, one entry that differs, or one entry whose before
\* and after are the same (for which _get_diff returns no text)
ValuesOf(k) ==
    IF k = "msg" THEN {"boom", "All items completed"}
    ELSE IF k \in {"changed", "skipped"} THEN BOOLEAN
    ELSE IF k = "diff" THEN {<<>>, <<"d">>, <<"same">>}
    ELSE {"text"}

RECURSIVE ResultsOver(_)
ResultsOver(D) ==
    IF D = {} THEN {EmptyDict}
    ELSE LET k == CHOOSE x \in D : TRUE IN
         {Put(r, k, v) : r \in ResultsOver(D \ {k}), v \in ValuesOf(k)}

Results(n) ==
    UNION {ResultsOver(D) : D \in {X \in SUBSET ResultKeys : Cardinality(X) <= n}}

CensoredNoLogResponse ==
    [censored |-> "the output has been hidden due to the fact that 'no_log: true' was specified for this result (via RLO)"]

GetComprehensiveResultObject(vb, result, task) ==
    IF task.no_log /\ ~RunIsVerbose(vb, 2) THEN CensoredNoLogResponse
    ELSE
      LET stripped == Restrict(result, (DOMAIN result) \ InternalKeys)
          r1 == IF ~RunIsVerbose(vb, 3) /\ "invocation" \in DOMAIN result
                THEN Restrict(stripped, (DOMAIN stripped) \ {"invocation"}) ELSE stripped
          r2 == IF ~RunIsVerbose(vb, 2)
                THEN Restrict(r1, (DOMAIN r1) \ {"diff", "skipped"}) ELSE r1
          r3 == IF {"stdout", "stdout_lines"} \subseteq DOMAIN r2
                THEN Put(r2, "stdout_lines", "<omitted>") ELSE r2
          r4 == IF {"stderr", "stderr_lines"} \subseteq DOMAIN r3
                THEN Put(r3, "stderr_lines", "<omitted>") ELSE r3
      IN IF task.vars # EmptyDict THEN Put(r4, "task_vars", task.vars) ELSE r4

GetReducedResultObject_NoCensor(vb, result, task) ==
    LET r1 == Restrict(result, (DOMAIN result) \cap {"stdout", "stderr"})
        r2 == IF "msg" \in DOMAIN result /\ result["msg"] # "All items completed"
              THEN Put(r1, "msg", result["msg"]) ELSE r1
    IN IF task.vars # EmptyDict THEN Put(r2, "task_vars", task.vars) ELSE r2

GetReducedResultObject(vb, result, task) ==
    IF task.no_log /\ ~RunIsVerbose(vb, 2) THEN CensoredNoLogResponse
    ELSE
      LET r1 == Restrict(result, (DOMAIN result) \cap {"stdout", "stderr"})
          r2 == IF "msg" \in DOMAIN result /\ result["msg"] # "All items completed"
                THEN Put(r1, "msg", result["msg"]) ELSE r1
      IN IF task.vars # EmptyDict THEN Put(r2, "task_vars", task.vars) ELSE r2

\* TaskResult.is_changed()
IsChanged(result) == "changed" \in DOMAIN result /\ result["changed"]

\* ------------------------------------------------------- payload as text
\* The characters of the strings results are made of; "ESC[1mbold" stands for
\* the string that starts with the byte 0x1B.
CodePoints(name) ==
    CASE name = "boom" -> <<98, 111, 111, 109>>
      [] name = "text" -> <<116, 101, 120, 116>>
      [] name = "hi" -> <<104, 105>>
      [] name = "<omitted>" -> <<60, 111, 109, 105, 116, 116, 101, 100, 62>>
      [] name = "All items completed" -> <<65, 108, 108, 32, 105, 116, 101, 109, 115, 32, 99, 111, 109, 112, 108, 101, 116, 101, 100>>
      [] name = "ESC[1mbold" -> <<27, 91, 49, 109, 98, 111, 108, 100>>
      [] name = CensoredNoLogResponse.censored ->
           <<116, 104, 101, 32, 111, 117, 116, 112, 117, 116, 32, 104, 97, 115, 32, 98, 101,
             101, 110, 32, 104, 105, 100, 100, 101, 110, 32, 100, 117, 101, 32, 116, 111, 32,
             116, 104, 101, 32, 102, 97, 99, 116, 32, 116, 104, 97, 116, 32, 39, 110, 111,
             95, 108, 111, 103, 58, 32, 116, 114, 117, 101, 39, 32, 119, 97, 115, 32, 115,
             112, 101, 99, 105, 102, 105, 101, 100, 32, 102, 111, 114, 32, 116, 104, 105,
             115, 32, 114, 101, 115, 117, 108, 116, 32, 40, 118, 105, 97, 32, 82, 76, 79, 41>>

\* one entry of a diff list: "d" has a backspace in its before text
PyOfDiff(d) ==
    IF d = "d" THEN PyDict(<<"before", "after">>, <<PyStr(<<8, 97>>), PyStr(<<98>>)>>)
    ELSE PyDict(<<"before", "after">>, <<PyStr(<<97>>), PyStr(<<97>>)>>)

\* the Python value under key k of a result
PyAt(k, v) ==
    IF k \in {"changed", "skipped"}
    THEN PyScalar("bool", IF v THEN <<84, 114, 117, 101>> ELSE <<70, 97, 108, 115, 101>>)
    ELSE IF k = "diff" THEN PyList([i \in DOMAIN v |-> PyOfDiff(v[i])])
    ELSE IF k = "task_vars"
    THEN PyDict(<<"greeting">>, <<PyStr(CodePoints(v["greeting"]))>>)
    ELSE PyStr(CodePoints(v))

ResultKeyOrder ==
    <<"censored", "stdout", "stdout_lines", "stderr", "stderr_lines", "msg", "diff",
      "skipped", "invocation", "changed", "_ansible_no_log", "task_vars">>

\* a result (or a shaped result) as the dict transform_dict walks
PyOfResult(r) ==
    LET keys == SelectSeq(ResultKeyOrder, LAMBDA k : k \in DOMAIN r)
    IN PyDict(keys, [i \in DOMAIN keys |-> PyAt(keys[i], r[keys[i]])])

\* the string leaves of a value, in order
RECURSIVE StrLeaves(_)
RECURSIVE LeavesFrom(_, _)
LeavesFrom(items, i) ==
    IF i > Len(items) THEN <<>> ELSE StrLeaves(items[i]) \o LeavesFrom(items, i + 1)

StrLeaves(v) == IF v.t = "str" THEN <<v.s>> ELSE LeavesFrom(v.items, 1)

\* _get_diff(difflist).strip(" \n") is not empty: an entry's before and after differ
HasDiff(difflist) ==
    \E i \in DOMAIN difflist.items :
        difflist.items[i].items[1] # difflist.items[i].items[2]

\* _sanitize_dict
SanitizeDict(input) == transform_dict(input, "Sanitizer")

\* ---------------------------------------------------------- elapsed time
\* A natural number in binary is the sequence of its bits, the highest first
\* and 1, <<>> for 0.  A float (not negative, not a subnormal) is [m, x]: the
\* number m * 2^x, with m of at most 53 significant bits.
\* for k < 2^30
IntToBits(k) ==
    LET length == CHOOSE l \in 0..30 : k < 2^l /\ (l = 0 \/ 2^(l - 1) <= k)
    IN [i \in 1..length |-> (k \div 2^(length - i)) % 2]

\* the number whose bits are the bits lo..hi of b
RECURSIVE BitsValue(_, _, _)
BitsValue(b, lo, hi) ==
    IF lo > hi THEN 0
    ELSE IF lo = hi THEN b[lo]
    ELSE BitsValue(b, lo, (lo + hi) \div 2) * 2^(hi - (lo + hi) \div 2)
           + BitsValue(b, (lo + hi) \div 2 + 1, hi)

BitsToInt(b) == BitsValue(b, 1, Len(b))

\* b without its leading zeros
StripZeros(b) ==
    IF \A i \in DOMAIN b : b[i] = 0 THEN <<>>
    ELSE SubSeq(b, CHOOSE i \in DOMAIN b : b[i] = 1 /\ \A j \in 1..(i - 1) : b[j] = 0, Len(b))

Zeros(n) == [i \in 1..n |-> 0]

\* b + 1: the lowest 0 becomes 1 and the 1s below it become 0
AddOne(b) ==
    IF \A i \in DOMAIN b : b[i] = 1 THEN <<1>> \o Zeros(Len(b))
    ELSE LET j == CHOOSE i \in DOMAIN b : b[i] = 0 /\ \A l \in (i + 1)..Len(b) : b[l] = 1
         IN SubSeq(b, 1, j - 1) \o <<1>> \o Zeros(Len(b) - j)

\* the limbs of b: its digits in base 2^15, the highest first
ToLimbs(b) ==
    LET n == (Len(b) + 14) \div 15
        padded == Zeros(15 * n - Len(b)) \o b
    IN [j \in 1..n |-> BitsValue(padded, 15 * (j - 1) + 1, 15 * j)]

FromLimbs(limbs) ==
    StripZeros([i \in 1..(15 * Len(limbs)) |->
                  (limbs[(i - 1) \div 15 + 1] \div 2^(14 - ((i - 1) % 15))) % 2])

\* limbs * c for a small c, from the lowest limb (j) on
RECURSIVE MulLimbs(_, _, _, _)
MulLimbs(limbs, c, j, carry) ==
    IF j = 0 THEN <<carry>>
    ELSE Append(MulLimbs(limbs, c, j - 1, (limbs[j] * c + carry) \div 2^15),
                (limbs[j] * c + carry) % 2^15)

MulBits(b, c) == FromLimbs(MulLimbs(ToLimbs(b), c, Len(ToLimbs(b)), 0))

\* limbs divided by a small d, from the highest limb (j) on: the limbs of the
\* quotient and the remainder
RECURSIVE DivLimbs(_, _, _, _)
DivLimbs(limbs, d, j, r) ==
    IF j > Len(limbs) THEN [q |-> <<>>, r |-> r]
    ELSE LET rest == DivLimbs(limbs, d, j + 1, (r * 2^15 + limbs[j]) % d)
         IN [q |-> <<(r * 2^15 + limbs[j]) \div d>> \o rest.q, r |-> rest.r]

DivBits(b, d) ==
    LET qr == DivLimbs(ToLimbs(b), d, 1, 0) IN [q |-> FromLimbs(qr.q), r |-> qr.r]

\* round b * 2^x (plus less than one unit of b if sticky) to 53 bits, to the
\* nearest, a tie to the even one
RoundBits(b, x, sticky) ==
    IF Len(b) <= 53 THEN [m |-> b, x |-> x]
    ELSE LET top == SubSeq(b, 1, 53)
             rest == SubSeq(b, 54, Len(b))
             more == sticky \/ \E i \in 2..Len(rest) : rest[i] = 1
         IN [m |-> IF rest[1] = 1 /\ (more \/ top[53] = 1) THEN AddOne(top) ELSE top,
             x |-> x + Len(rest)]

\* float / int and float * int, correctly rounded
FloatDiv(f, d) ==
    LET qr == DivBits(f.m \o Zeros(75), d) IN RoundBits(qr.q, f.x - 75, qr.r # 0)

FloatMul(f, c) == RoundBits(MulBits(f.m, c), f.x, FALSE)

\* int(f)
FloatToInt(f) ==
    IF f.x >= 0 THEN BitsToInt(f.m \o Zeros(f.x))
    ELSE IF Len(f.m) <= -f.x THEN 0
    ELSE BitsToInt(SubSeq(f.m, 1, Len(f.m) + f.x))

\* f % 1, which is exact
FloatMod1(f) ==
    IF f.x >= 0 THEN [m |-> <<>>, x |-> 0]
    ELSE IF Len(f.m) <= -f.x THEN f
    ELSE [m |-> StripZeros(SubSeq(f.m, Len(f.m) + f.x + 1, Len(f.m))), x |-> f.x]

\* int(f % d): f % d is exact, and its whole part is that of f modulo d
IntOfFloatMod(f, d) == FloatToInt(f) % d

\* the float nearest to k / 1000: k milliseconds, in seconds
FloatOfMillis(k) == FloatDiv([m |-> IntToBits(k), x |-> 0], 1000)

\* str(i)
RECURSIVE Digits(_)
Digits(i) == IF i < 10 THEN <<48 + i>> ELSE Append(Digits(i \div 10), 48 + (i % 10))

\* f"{text:0>width}"
RECURSIVE ZeroPad(_, _)
ZeroPad(text, width) == IF Len(text) >= width THEN text ELSE ZeroPad(<<48>> \o text, width)

\* _format_float_seconds(n)
FormatFloatSeconds(n) ==
    LET milliseconds == FloatToInt(FloatMul(FloatMod1(n), 1000)) IN
    IF FloatToInt(n) < 1 THEN <<46>> \o ZeroPad(Digits(milliseconds), 3)
    ELSE LET seconds == IntOfFloatMod(n, 60)
             minutes == FloatToInt(FloatDiv(n, 60)) % 60
             hours == FloatToInt(FloatDiv(n, 3600)) % 3600
         IN Digits(hours) \o <<58>> \o ZeroPad(Digits(minutes), 2) \o <<58>>
              \o ZeroPad(Digits(seconds), 2) \o <<46>> \o ZeroPad(Digits(milliseconds), 3)

\* durations in milliseconds: 0 to 2 hours, 0 to 2 minutes, some seconds and
\* some milliseconds
Durations ==
    {((h * 60 + mi) * 60 + sec) * 1000 + ms :
       h \in 0..2, mi \in {0, 1, 2, 59}, sec \in {0, 1, 5, 59}, ms \in {0, 1, 3, 125, 500, 999}}

\* ------------------------------------------------------------ recap table
\* str < str: by code point, a proper prefix first
RECURSIVE PyStrLess(_, _)
PyStrLess(a, b) ==
    IF b = <<>> THEN FALSE
    ELSE IF a = <<>> THEN TRUE
    ELSE IF Head(a) # Head(b) THEN Head(a) < Head(b)
    ELSE PyStrLess(Tail(a), Tail(b))

RECURSIVE SortedFrom(_)
SortedFrom(S) ==
    IF S = {} THEN <<>>
    ELSE LET least == CHOOSE x \in S : \A y \in S \ {x} : PyStrLess(x, y)
         IN <<least>> \o SortedFrom(S \ {least})

sorted_ArrivalOrder(keys) == keys

\* sorted(keys), for the keys of a dict
sorted(keys) == SortedFrom({keys[i] : i \in DOMAIN keys})

\* stats: one entry [host, failures, unreachable, changed] per processed host,
\* in the order the hosts were first processed
Processed(stats) == [i \in DOMAIN stats |-> stats[i].host]

Summarize(stats, host) == stats[CHOOSE i \in DOMAIN stats : stats[i].host = host]

HostColor(host_stats) ==
    IF host_stats.failures # 0 \/ host_stats.unreachable # 0 THEN "rlo.task.result.failed"
    ELSE IF host_stats.changed # 0 THEN "rlo.task.result.changed"
    ELSE "rlo.task.result.ok"

\* the rows v2_playbook_on_stats adds to the table
RecapRows(stats) ==
    LET sorted_hosts == sorted(Processed(stats)) IN
    [i \in DOMAIN sorted_hosts |->
       [host |-> sorted_hosts[i], color |-> HostColor(Summarize(stats, sorted_hosts[i]))]]

\* "h1", "h10", "h2"
RecapHosts == {<<104, 49>>, <<104, 49, 48>>, <<104, 50>>}
StatCounts == {0, 1}

AllStats ==
    LET entries == {[host |-> h, failures |-> f, unreachable |-> u, changed |-> c] :
                      h \in RecapHosts, f \in StatCounts, u \in StatCounts, c \in StatCounts}
    IN {st \in StringsUpTo(entries, Cardinality(RecapHosts)) :
          \A i \in DOMAIN st, j \in DOMAIN st : i # j => st[i].host # st[j].host}

\* ------------------------------------------------------------------ state
VARIABLES
    hosts,            \* self._hosts: host name -> slot id (NoSlot: no such key)
    tasks,            \* self._progress._tasks: slot id -> [host, start]
    nextId,           \* the id Progress.add_task gives next
    clock,            \* the time Progress reads
    currentRole,      \* self._current_role
    lastPrintedRole,  \* self._last_printed_role
    shouldPrintRole,  \* self._should_print_role
    liveStarted,      \* whether self._live is started
    transformerUser,  \* self._transformer_user(_callback): PyNone or a class name
    out,              \* what the last handled event wrote, in order
    lastEvent,        \* the last handled event and what its handler decided
    runBanners,       \* history: banners written since currentRole last changed
    resolutionFailed, \* history: a user transformer resolution has failed
    liveStops,        \* history: calls of self._live.stop()
    env,              \* self._display.verbosity and the options get_option reads
    call,             \* a call of a pure function (SpecPure)
    ret               \* what that call returned

vars == <<hosts, tasks, nextId, clock, currentRole, lastPrintedRole, shouldPrintRole,
          liveStarted, transformerUser, out, lastEvent, runBanners, resolutionFailed,
          liveStops, env, call, ret>>

trackerVars == <<hosts, tasks, nextId>>
fixedVars == <<env, call, ret>>

NoCall == [fn |-> "none"]
NoRet == [done |-> FALSE]

\* no print of the handler raises
NoFailure == -1

\* the live slots whose host label is h
LiveSlots(h) == {id \in DOMAIN tasks : tasks[id].host = h}

\* one written line; live is whether the live region was started when it was
\* written, rows are the rows of a table; for a payload or a diff, raw are the
\* string leaves of the object before _sanitize_dict and text the string
\* leaves of the object handed to the YAML dumper or to _get_diff
Line(kind, role, elapsed, shape, live) ==
    [kind |-> kind, role |-> role, elapsed |-> elapsed, shape |-> shape, live |-> live,
     rows |-> <<>>, raw |-> <<>>, text |-> <<>>]

\* an event as its handler starts; wasLive: the live region was started then;
\* comp, red and diff: the finished task is to print a comprehensive payload,
\* a reduced payload, a diff; role: the role of the task of a TaskFinished or
\* TaskRetried event; no_log: the finished task is marked no_log
Event(kind, h) ==
    [kind |-> kind, host |-> h, raised |-> "none", resolve |-> "none",
     comp |-> FALSE, red |-> FALSE, diff |-> FALSE, wasLive |-> liveStarted,
     role |-> "-", no_log |-> FALSE]

\* What one handler works on: the fields of self it may change, what it has
\* written, and the exception that ended it ("none" while it runs).
\* printsLeft is the number of prints that succeed before one raises (NoFailure:
\* none raises); failWrites is whether the print that raises has written its
\* line before (console.print succeeded and self._live.refresh() raised).
Context ==
    [currentRole |-> currentRole, lastPrintedRole |-> lastPrintedRole,
     shouldPrintRole |-> shouldPrintRole, transformerUser |-> transformerUser,
     live |-> liveStarted, out |-> <<>>, raised |-> "none", resolve |-> "none",
     stops |-> 0, printsLeft |-> NoFailure, failWrites |-> FALSE]

\* no handler runs once the plugin object is deleted
Alive == lastEvent.kind # "del"

\* ------------------------------------------------------- handler's steps
\* self._live.stop(): Live.stop returns at once when the live region is not started
LiveStop_RaisesWhenStopped(c) ==
    IF c.live THEN [c EXCEPT !.live = FALSE, !.stops = c.stops + 1]
    ELSE [c EXCEPT !.raised = "LiveError", !.stops = c.stops + 1]

LiveStop(c) == [c EXCEPT !.live = FALSE, !.stops = c.stops + 1]

\* _print (and _log, which adds the time stamp): write, then refresh the live
\* region; Live.refresh does not start it
Write(c, line) ==
    IF c.printsLeft = 0
    THEN [c EXCEPT !.out = IF c.failWrites THEN Append(c.out, line) ELSE c.out,
                   !.raised = "PrintError", !.printsLeft = NoFailure]
    ELSE [c EXCEPT !.out = Append(c.out, line),
                   !.printsLeft = IF c.printsLeft > 0 THEN c.printsLeft - 1 ELSE NoFailure]

PrintLine(c, kind, role, elapsed, shape) ==
    Write(c, Line(kind, role, elapsed, shape, c.live))

HandleRole_NoneArmed(c, role_name) ==
    LET c1 == IF c.currentRole # role_name
              THEN [c EXCEPT !.shouldPrintRole = TRUE, !.currentRole = role_name]
              ELSE c
    IN IF c1.lastPrintedRole = c1.currentRole
       THEN [c1 EXCEPT !.shouldPrintRole = FALSE] ELSE c1

HandleRole(c, role_name) ==
    LET c1 == IF c.currentRole # role_name
              THEN [c EXCEPT !.shouldPrintRole = TRUE, !.currentRole = role_name]
              ELSE c
        c2 == IF role_name = "None" THEN [c1 EXCEPT !.shouldPrintRole = FALSE] ELSE c1
    IN IF c2.lastPrintedRole = c2.currentRole
       THEN [c2 EXCEPT !.shouldPrintRole = FALSE] ELSE c2

\* _print(table)
PrintTable(c, rows) ==
    Write(c, [Line("recap", "-", NoElapsed, "-", c.live) EXCEPT !.rows = rows])

LogTask_FlagKept(c, kind, elapsed) ==
    LET banner == PrintLine(c, "banner", c.currentRole, NoElapsed, "-")
        c1 == IF ~c.shouldPrintRole THEN c
              ELSE IF banner.raised # "none" THEN banner
              ELSE [banner EXCEPT !.lastPrintedRole = c.currentRole]
    IN IF c1.raised # "none" THEN c1 ELSE PrintLine(c1, kind, "-", elapsed, "-")

LogTask(c, kind, elapsed) ==
    LET banner == PrintLine(c, "banner", c.currentRole, NoElapsed, "-")
        c1 == IF ~c.shouldPrintRole THEN c
              ELSE IF banner.raised # "none" THEN banner
              ELSE [banner EXCEPT !.lastPrintedRole = c.currentRole,
                                  !.shouldPrintRole = FALSE]
    IN IF c1.raised # "none" THEN c1 ELSE PrintLine(c1, kind, "-", elapsed, "-")

TransformDict_NoCache(c) ==
    LET r == ResolveUserTransformer(env.rlo_transformer) IN
    IF r.ok THEN [c EXCEPT !.transformerUser = r.val, !.resolve = "ok"]
    ELSE [c EXCEPT !.raised = r.val, !.resolve = "failed"]

\* _transform_dict: resolve the user transformer unless one is cached, then
\* transform; a failed resolution raises and caches nothing
TransformDict(c) ==
    IF c.transformerUser # PyNone THEN c
    ELSE LET r == ResolveUserTransformer(env.rlo_transformer) IN
         IF r.ok THEN [c EXCEPT !.transformerUser = r.val, !.resolve = "ok"]
         ELSE [c EXCEPT !.raised = r.val, !.resolve = "failed"]

\* _print of a formatted object
PrintObject(c, kind, shape, input, written) ==
    Write(c, [Line(kind, "-", NoElapsed, shape, c.live)
                EXCEPT !.raw = StrLeaves(input), !.text = StrLeaves(written)])

PrintResult_UserFirst(c, shaped, shape) ==
    IF shaped = EmptyDict THEN c
    ELSE LET preprocessed_result == PyOfResult(shaped)
             c1 == TransformDict(c) IN
         IF c1.raised # "none" THEN c1
         ELSE PrintObject(c1, "payload", shape, preprocessed_result,
                          SanitizeDict(transform_dict(preprocessed_result,
                                                      c1.transformerUser)))

PrintResult(c, shaped, shape) ==
    IF shaped = EmptyDict THEN c
    ELSE LET preprocessed_result == PyOfResult(shaped)
             sanitized_result == SanitizeDict(preprocessed_result)
             c1 == TransformDict(c) IN
         IF c1.raised # "none" THEN c1
         ELSE PrintObject(c1, "payload", shape, preprocessed_result,
                          transform_dict(sanitized_result, c1.transformerUser))

PrintSingleDiff(c, diff) ==
    LET diff_raw == PyAt("diff", diff)
        sanitized_difflist ==
            [i \in DOMAIN diff_raw.items |-> SanitizeDict(diff_raw.items[i])]
        c1 == TransformDict(c)
        transformed_difflist ==
            PyList([i \in DOMAIN sanitized_difflist |->
                      transform_dict(sanitized_difflist[i], c1.transformerUser)])
    IN IF c1.raised # "none" THEN c1
       ELSE IF ~HasDiff(transformed_difflist) THEN c1
       ELSE PrintObject(c1, "diff", "-", diff_raw, transformed_difflist)

\* _print_diff, for a result without a "results" list
PrintDiff(c, result) ==
    IF "diff" \in DOMAIN result /\ result["diff"] # <<>> /\ IsChanged(result)
    THEN PrintSingleDiff(c, result["diff"])
    ELSE c

PrintTaskResult_Both(c, task, status, result) ==
    LET c1 == IF ShouldPrintComprehensiveTaskResult(env.verbosity, task, status)
              THEN PrintResult(c, GetComprehensiveResultObject(env.verbosity, result, task),
                               "comprehensive")
              ELSE c
    IN IF c1.raised = "none"
          /\ ShouldPrintReducedTaskResult(env.verbosity, IsChanged(result), status)
       THEN PrintResult(c1, GetReducedResultObject(env.verbosity, result, task),
                        "reduced")
       ELSE c1

\* "Only one kind of result should be printed"
PrintTaskResult(c, task, status, result) ==
    IF ShouldPrintComprehensiveTaskResult(env.verbosity, task, status)
    THEN PrintResult(c, GetComprehensiveResultObject(env.verbosity, result, task),
                     "comprehensive")
    ELSE IF ShouldPrintReducedTaskResult(env.verbosity, IsChanged(result), status)
    THEN PrintResult(c, GetReducedResultObject(env.verbosity, result, task),
                     "reduced")
    ELSE c

\* _on_finished_task from _handle_role on
FinishSteps(c, task, status, result, elapsed) ==
    LET c1 == HandleRole(c, task.role)
        c2 == IF ShouldLogTask(env.verbosity, env, task, IsChanged(result), status)
              THEN LogTask(c1, "log", elapsed) ELSE c1
        c3 == IF c2.raised # "none" THEN c2
              ELSE IF IsChanged(result) THEN PrintDiff(c2, result) ELSE c2
        c4 == IF c3.raised # "none" THEN c3
              ELSE PrintTaskResult(c3, task, status, result)
    IN IF c4.raised # "none" THEN c4
       ELSE IF status = "failed" /\ env.show_task_path_on_failure
       THEN PrintLine(c4, "path", "-", NoElapsed, "-")
       ELSE c4

Banners(lines) == Cardinality({i \in DOMAIN lines : lines[i].kind = "banner"})

Min(a, b) == IF a < b THEN a ELSE b

\* the handler's context becomes the state
Commit(c, ev) ==
    /\ currentRole' = c.currentRole
    /\ lastPrintedRole' = c.lastPrintedRole
    /\ shouldPrintRole' = c.shouldPrintRole
    /\ transformerUser' = c.transformerUser
    /\ liveStarted' = c.live
    /\ out' = c.out
    /\ lastEvent' = [ev EXCEPT !.raised = c.raised, !.resolve = c.resolve]
    /\ runBanners' = Min(MaxBanners,
                         (IF c.currentRole # currentRole THEN 0 ELSE runBanners)
                           + Banners(c.out))
    /\ resolutionFailed' = (resolutionFailed \/ c.resolve = "failed")
    /\ liveStops' = Min(MaxStops, liveStops + c.stops)

\* ---------------------------------------------------------------- handlers
\* _handle_new_task: a new slot, bound to the host
HandleNewTask_KeepsFirstId(h) ==
    /\ hosts' = [hosts EXCEPT ![h] = IF hosts[h] = NoSlot THEN nextId ELSE hosts[h]]
    /\ tasks' = Put(tasks, nextId, [host |-> h, start |-> clock])
    /\ nextId' = nextId + 1

HandleNewTask(h) ==
    /\ hosts' = [hosts EXCEPT ![h] = nextId]
    /\ tasks' = Put(tasks, nextId, [host |-> h, start |-> clock])
    /\ nextId' = nextId + 1

V2RunnerOnStart(h, task) ==
    /\ Alive
    /\ nextId < MaxSlots
    /\ HandleNewTask(h)
    /\ Commit(Context, Event("started", h))
    /\ UNCHANGED <<clock, fixedVars>>

\* the slots left by the first lines of _on_finished_task
SlotsAfterFinish_NoRemove(h) == tasks

SlotsAfterFinish(h) ==
    IF hosts[h] \in DOMAIN tasks
    THEN Restrict(tasks, (DOMAIN tasks) \ {hosts[h]})
    ELSE tasks

ElapsedAtFinish_OldestSlot(h) ==
    IF hosts[h] \in DOMAIN tasks
    THEN clock - tasks[CHOOSE id \in DOMAIN tasks : \A other \in DOMAIN tasks : id <= other].start
    ELSE 0

ElapsedAtFinish(h) ==
    IF hosts[h] \in DOMAIN tasks THEN clock - tasks[hosts[h]].start ELSE 0

\* v2_runner_on_ok, _on_skipped, _on_failed, _on_unreachable.  self._hosts[h]
\* raises KeyError for a host that is no key of the dict.
OnFinishedTask(h, task, status, result) ==
    IF hosts[h] = NoSlot
    THEN /\ Alive
         /\ lastEvent' = [Event("finished", h) EXCEPT !.raised = "KeyError",
                                                      !.role = task.role,
                                                      !.no_log = task.no_log]
         /\ out' = <<>>
         /\ UNCHANGED <<trackerVars, clock, currentRole, lastPrintedRole, shouldPrintRole,
                        liveStarted, transformerUser, runBanners, resolutionFailed,
                        liveStops, fixedVars>>
    ELSE /\ Alive
         /\ tasks' = SlotsAfterFinish(h)
         /\ Commit(FinishSteps(Context, task, status, result, ElapsedAtFinish(h)),
                   [Event("finished", h) EXCEPT
                      !.role = task.role,
                      !.no_log = task.no_log,
                      !.comp = ShouldPrintComprehensiveTaskResult(env.verbosity, task, status),
                      !.red = ShouldPrintReducedTaskResult(env.verbosity, IsChanged(result),
                                                           status),
                      !.diff = (IsChanged(result) /\ "diff" \in DOMAIN result
                                  /\ result["diff"] # <<>>)])
         /\ UNCHANGED <<hosts, nextId, clock, fixedVars>>

\* _on_finished_task when one of its prints raises: Ansible reports the
\* exception of the callback and goes on with the next event
OnFinishedTaskPrintFails(h, task, status, result, k, written) ==
    LET c == FinishSteps([Context EXCEPT !.printsLeft = k, !.failWrites = written],
                         task, status, result, ElapsedAtFinish(h))
    IN /\ Alive
       /\ hosts[h] # NoSlot
       /\ c.raised = "PrintError"
       /\ tasks' = SlotsAfterFinish(h)
       /\ Commit(c, [Event("finished", h) EXCEPT
                      !.role = task.role,
                      !.no_log = task.no_log,
                      !.comp = ShouldPrintComprehensiveTaskResult(env.verbosity, task, status),
                      !.red = ShouldPrintReducedTaskResult(env.verbosity, IsChanged(result),
                                                           status),
                      !.diff = (IsChanged(result) /\ "diff" \in DOMAIN result
                                  /\ result["diff"] # <<>>)])
       /\ UNCHANGED <<hosts, nextId, clock, fixedVars>>

V2RunnerRetry(h, task) ==
    /\ Alive
    /\ Commit(LogTask(Context, "retry", NoElapsed),
              [Event("retry", h) EXCEPT !.role = task.role])
    /\ UNCHANGED <<trackerVars, clock, fixedVars>>

V2PlaybookOnPlayStart ==
    /\ Alive
    /\ Commit(PrintLine(Context, "play", "-", NoElapsed, "-"), Event("play", "-"))
    /\ UNCHANGED <<trackerVars, clock, fixedVars>>

V2PlaybookOnNotify(h, task) ==
    /\ Alive
    /\ Commit(PrintLine(Context, "notify", "-", NoElapsed, "-"), Event("notify", h))
    /\ UNCHANGED <<trackerVars, clock, fixedVars>>

V2PlaybookOnNoHostsMatched ==
    /\ Alive
    /\ Commit(LogTask(Context, "nohosts", NoElapsed), Event("nohosts", "-"))
    /\ UNCHANGED <<trackerVars, clock, fixedVars>>

V2PlaybookOnStats_NoStop(stats) ==
    /\ Alive
    /\ Commit(PrintTable(PrintLine(Context, "blank", "-", NoElapsed, "-"),
                         RecapRows(stats)),
              Event("stats", "-"))
    /\ UNCHANGED <<trackerVars, clock, fixedVars>>

\* self._live.stop(), then the blank line and the table
V2PlaybookOnStats(stats) ==
    /\ Alive
    /\ Commit(PrintTable(PrintLine(LiveStop(Context),
                                   "blank", "-", NoElapsed, "-"),
                         RecapRows(stats)),
              Event("stats", "-"))
    /\ UNCHANGED <<trackerVars, clock, fixedVars>>

\* __del__: self._live.stop()
Del ==
    /\ Alive
    /\ Commit(LiveStop(Context), Event("del", "-"))
    /\ UNCHANGED <<trackerVars, clock, fixedVars>>

\* time passes between two events
\* the value get_option("rlo_transformer") returns changes; no handler runs
SetOption(option) ==
    /\ Alive
    /\ option # env.rlo_transformer
    /\ env' = [env EXCEPT !.rlo_transformer = option]
    /\ Commit(Context, Event("option", "-"))
    /\ UNCHANGED <<trackerVars, clock, call, ret>>

Tick ==
    /\ Alive
    /\ clock < MaxClock
    /\ clock' = clock + 1
    /\ Commit(Context, Event("tick", "-"))
    /\ UNCHANGED <<trackerVars, fixedVars>>

\* ------------------------------------------------------------------- runs
\* __init__; force_interactive is RLO_FORCE_INTERACTIVE
InitProgram(force_interactive) ==
    /\ hosts = [h \in Hosts |-> NoSlot]
    /\ tasks = EmptyDict
    /\ nextId = 0
    /\ clock = 0
    /\ currentRole = PyNone
    /\ lastPrintedRole = PyNone
    /\ shouldPrintRole = FALSE
    /\ liveStarted = force_interactive
    /\ transformerUser = PyNone
    /\ out = <<>>
    /\ lastEvent = [kind |-> "init", host |-> "-", raised |-> "none", resolve |-> "none",
                    comp |-> FALSE, red |-> FALSE, diff |-> FALSE, wasLive |-> FALSE,
                    role |-> "-", no_log |-> FALSE]
    /\ runBanners = 0
    /\ resolutionFailed = FALSE
    /\ liveStops = 0

\* self._display.verbosity and the options, set before the first event
Env(vb, dsk, dok, path, transformer) ==
    [verbosity |-> vb, display_skipped_hosts |-> dsk, display_ok_hosts |-> dok,
     show_task_path_on_failure |-> path, rlo_transformer |-> transformer]

Task(role, action, no_log, taskvars) ==
    [role |-> role, action |-> action, no_log |-> no_log, vars |-> taskvars]

\* Spec: two hosts and three roles under a quiet configuration (verbosity 0,
\* nothing shown for ok and skipped tasks), so that finished tasks are logged
\* (failed, unreachable) or not (ok, skipped).
QuietEnv == Env(0, FALSE, FALSE, FALSE, <<"/", "Identity">>)
SlotTasks == {Task(r, "command", FALSE, EmptyDict) : r \in Roles}

\* the stats of a run: "h2" failed before "h1" changed, or no host processed
RunStats ==
    { << [host |-> <<104, 50>>, failures |-> 1, unreachable |-> 0, changed |-> 0],
         [host |-> <<104, 49>>, failures |-> 0, unreachable |-> 0, changed |-> 1] >>,
      <<>> }

Init ==
    /\ \E fi \in BOOLEAN : InitProgram(fi)
    /\ env = QuietEnv
    /\ call = NoCall
    /\ ret = NoRet

Next ==
    \/ \E h \in Hosts, t \in SlotTasks : V2RunnerOnStart(h, t)
    \/ \E h \in Hosts, t \in SlotTasks, s \in Statuses :
          OnFinishedTask(h, t, s, EmptyDict)
    \/ \E h \in Hosts, t \in SlotTasks : V2RunnerRetry(h, t)
    \/ V2PlaybookOnPlayStart
    \/ \E h \in Hosts, t \in SlotTasks : V2PlaybookOnNotify(h, t)
    \/ V2PlaybookOnNoHostsMatched
    \/ \E stats \in RunStats : V2PlaybookOnStats(stats)
    \/ Del
    \/ Tick

Spec == Init /\ [][Next]_vars

\* SpecOutput: one host and one role under every verbosity, with the tasks,
\* results and options that decide what a finished task writes.
OutputTasks ==
    { Task("web", "command", FALSE, EmptyDict),
      Task("web", "command", TRUE, EmptyDict),
      Task("web", "debug", FALSE, EmptyDict) }

OutputResults ==
    { [msg |-> "boom"],
      [changed |-> TRUE, diff |-> <<"d">>],
      [changed |-> TRUE, stdout |-> "text"] }

OutputTransformers == { <<"/", "Identity">>, <<"Identity">> }

OutputEnvs ==
    {Env(vb, d, d, d, t) : vb \in Verbosities, d \in BOOLEAN, t \in OutputTransformers}

NextOutput ==
    \/ \E t \in OutputTasks : V2RunnerOnStart("h1", t)
    \/ \E t \in OutputTasks, s \in Statuses, r \in OutputResults :
          OnFinishedTask("h1", t, s, r)
    \/ \E t \in OutputTasks : V2RunnerRetry("h1", t)
    \/ V2PlaybookOnPlayStart
    \/ \E t \in OutputTasks : V2PlaybookOnNotify("h1", t)
    \/ V2PlaybookOnNoHostsMatched
    \/ \E stats \in RunStats : V2PlaybookOnStats(stats)
    \/ Del
    \/ Tick

InitOutput ==
    /\ InitProgram(TRUE)
    /\ env \in OutputEnvs
    /\ call = NoCall
    /\ ret = NoRet

SpecOutput == InitOutput /\ [][NextOutput]_vars

\* SpecText: one host whose tasks return text with control bytes, printed
\* under each verbosity and each transformer that resolves.
TextTasks ==
    { Task("web", "command", FALSE, EmptyDict),
      Task("web", "command", TRUE, EmptyDict),
      Task("None", "debug", FALSE, [greeting |-> "hi"]) }

TextResults ==
    { [msg |-> "boom", stdout |-> "ESC[1mbold"],
      [changed |-> TRUE, stdout |-> "ESC[1mbold", diff |-> <<"d">>],
      [changed |-> TRUE, diff |-> <<"same", "d">>] }

TextTransformers ==
    { <<"/", "Identity">>, <<"/", "Dummy">>, <<"mytransformers", "/", "Highlight">> }

TextEnvs ==
    {Env(vb, FALSE, FALSE, FALSE, t) : vb \in {0, 2, MaxVerbosity}, t \in TextTransformers}

NextText ==
    \/ \E t \in TextTasks : V2RunnerOnStart("h1", t)
    \/ \E t \in TextTasks, s \in Statuses, r \in TextResults :
          OnFinishedTask("h1", t, s, r)
    \/ \E o \in TextTransformers \cup {<<"Identity">>} : SetOption(o)

InitText ==
    /\ InitProgram(TRUE)
    /\ env \in TextEnvs
    /\ call = NoCall
    /\ ret = NoRet

SpecText == InitText /\ [][NextText]_vars

\* SpecFail: two hosts and two roles at verbosity 0 with the task path shown,
\* where any one print of a task that failed may raise.
FailEnv == Env(0, FALSE, FALSE, TRUE, <<"/", "Identity">>)

FailTasks == {Task(r, "command", FALSE, EmptyDict) : r \in {"web", "db"}}

FailResults == { [msg |-> "boom"], [changed |-> TRUE, diff |-> <<"d">>] }

NextFail ==
    \/ \E h \in Hosts, t \in FailTasks : V2RunnerOnStart(h, t)
    \/ \E h \in Hosts, t \in FailTasks, s \in {"ok", "failed"} :
          OnFinishedTask(h, t, s, [msg |-> "boom"])
    \/ \E h \in Hosts, t \in FailTasks, r \in FailResults,
          k \in 0..(MaxPrints - 1), written \in BOOLEAN :
          OnFinishedTaskPrintFails(h, t, "failed", r, k, written)
    \/ \E h \in Hosts, t \in FailTasks : V2RunnerRetry(h, t)

InitFail ==
    /\ InitProgram(TRUE)
    /\ env = FailEnv
    /\ call = NoCall
    /\ ret = NoRet

SpecFail == InitFail /\ [][NextFail]_vars

\* SpecPure: one call of a pure function, its arguments drawn from bounded sets.
SanitizeCalls == {[fn |-> "sanitize", s |-> s] : s \in StringsUpTo(Alphabet, MaxStrLen)}

ShouldLogCalls ==
    {[fn |-> "should_log", vb |-> vb, task |-> Task("None", a, nl, EmptyDict),
      changed |-> ch, status |-> st, opts |-> Env(vb, dsk, dok, FALSE, <<"/", "Identity">>)] :
       vb \in Verbosities, a \in {"command", "debug"}, nl \in BOOLEAN, ch \in BOOLEAN,
       st \in Statuses, dsk \in BOOLEAN, dok \in BOOLEAN}

ShouldPrintCalls ==
    {[fn |-> f, vb |-> vb, task |-> Task("None", a, nl, EmptyDict), changed |-> ch,
      status |-> st] :
       f \in {"should_print_comprehensive", "should_print_reduced"},
       vb \in Verbosities, a \in {"command", "debug"}, nl \in BOOLEAN, ch \in BOOLEAN,
       st \in Statuses}

ShapeCalls ==
    {[fn |-> "shape", form |-> f, vb |-> vb, result |-> r,
      task |-> Task("None", "command", nl, tv)] :
       f \in {"comprehensive", "reduced"}, vb \in Verbosities, r \in Results(MaxResultKeys),
       nl \in BOOLEAN, tv \in TaskVarsSet}

ResolveCalls == {[fn |-> "resolve", option |-> o] : o \in TransformerOptions}

RecapCalls == {[fn |-> "recap", stats |-> st] : st \in AllStats}

\* n is the elapsed time of millis milliseconds
FormatCalls == {[fn |-> "format", millis |-> k, n |-> FloatOfMillis(k)] : k \in Durations}

TransformCalls ==
    {[fn |-> "transform_dict", data |-> d, callback |-> cb] :
       d \in PyValues, cb \in {"Sanitizer", "Identity", "Dummy"}}

InitPure ==
    /\ InitProgram(TRUE)
    /\ env = QuietEnv
    /\ call \in SanitizeCalls \cup ShouldLogCalls \cup ShouldPrintCalls \cup ShapeCalls
                \cup ResolveCalls
                  \cup TransformCalls \cup RecapCalls \cup FormatCalls
    /\ ret = NoRet

Return(v) ==
    /\ ~ret.done
    /\ ret' = [done |-> TRUE, val |-> v]
    /\ UNCHANGED <<trackerVars, clock, currentRole, lastPrintedRole, shouldPrintRole,
                   liveStarted, transformerUser, out, lastEvent, runBanners,
                   resolutionFailed, liveStops, env, call>>

CallSanitize ==
    /\ call.fn = "sanitize"
    /\ Return(SanitizerTransform(call.s))

CallShouldLogTask ==
    /\ call.fn = "should_log"
    /\ Return(ShouldLogTask(call.vb, call.opts, call.task, call.changed, call.status))

CallShouldPrintComprehensive ==
    /\ call.fn = "should_print_comprehensive"
    /\ Return(ShouldPrintComprehensiveTaskResult(call.vb, call.task, call.status))

CallShouldPrintReduced ==
    /\ call.fn = "should_print_reduced"
    /\ Return(ShouldPrintReducedTaskResult(call.vb, call.changed, call.status))

CallShaper ==
    /\ call.fn = "shape"
    /\ Return(IF call.form = "comprehensive"
              THEN GetComprehensiveResultObject(call.vb, call.result, call.task)
              ELSE GetReducedResultObject(call.vb, call.result, call.task))

CallResolve ==
    /\ call.fn = "resolve"
    /\ Return(ResolveUserTransformer(call.option))

CallTransformDict ==
    /\ call.fn = "transform_dict"
    /\ Return(transform_dict(call.data, call.callback))

CallRecapRows ==
    /\ call.fn = "recap"
    /\ Return(RecapRows(call.stats))

CallFormatFloatSeconds ==
    /\ call.fn = "format"
    /\ Return(FormatFloatSeconds(call.n))

NextPure ==
    \/ CallSanitize
    \/ CallShouldLogTask
    \/ CallShouldPrintComprehensive
    \/ CallShouldPrintReduced
    \/ CallShaper
    \/ CallResolve
    \/ CallTransformDict
    \/ CallRecapRows
    \/ CallFormatFloatSeconds

SpecPure == InitPure /\ [][NextPure]_vars

SlotsConsistent == \A h \in Hosts : LiveSlots(h) \subseteq {hosts[h]}

\* C2 as stated: at most one live slot per host in every reachable state.
OneLiveSlotPerHost == \A h \in Hosts : Cardinality(LiveSlots(h)) <= 1

\* C2 amended: every event other than a TaskStarted for a host that still has
\* a live slot keeps at most one live slot per host, the one self._hosts names.
OneLiveSlotUnlessRestarted ==
    [][ (SlotsConsistent
         /\ ~(lastEvent'.kind = "started" /\ LiveSlots(lastEvent'.host) # {}))
        => SlotsConsistent' ]_vars

\* C2 witness: a host finished its first task, started its second, and has the
\* second slot as its one live slot.
SecondSlotAlone ==
    \E h \in Hosts :
       /\ hosts[h] = 1
       /\ DOMAIN tasks = {1}
       /\ tasks[1].host = h
       /\ \A g \in Hosts \ {h} : hosts[g] = NoSlot

\* C3: a TaskFinished for a host without a live slot raises nothing and logs,
\* if it logs, an elapsed time of 0.
FinishWithoutSlotNotFatal ==
    [][ (lastEvent'.kind = "finished" /\ hosts[lastEvent'.host] \notin DOMAIN tasks)
        => /\ lastEvent'.raised = "none"
           /\ \A i \in DOMAIN out' : out'[i].kind = "log" => out'[i].elapsed = 0
      ]_vars

NoBannerForNone ==
    \A i \in DOMAIN out : out[i].kind = "banner" => out[i].role \notin {"None", PyNone}

\* C4 as stated: a run of finished tasks of one role R (not "None") that ends
\* has had its banner written exactly once; a run has it at most once; no
\* banner is written for "None".
BannerExactlyOncePerRun ==
    [][ /\ (lastEvent'.kind = "finished" /\ currentRole' # currentRole
              /\ currentRole \notin {PyNone, "None"}) => runBanners = 1
        /\ runBanners' <= 1
        /\ NoBannerForNone'
      ]_vars

\* C4 amended: within a run of finished tasks of one role the banner is written
\* at most once, and no banner is written for "None".
BannerAtMostOncePerRun == runBanners <= 1 /\ NoBannerForNone

\* C4 witness: a finished task of a role is logged without a banner in a run
\* whose banner was written before.
BannerNotRepeated ==
    /\ lastEvent.kind = "finished"
    /\ currentRole \in {"web", "db"}
    /\ runBanners = 1
    /\ Banners(out) = 0
    /\ \E i \in DOMAIN out : out[i].kind = "log"

\* C8: the RunStats handler writes each of its lines with the live region
\* stopped and leaves it stopped, and no handler starts a stopped live region.
LiveStoppedBeforeRecap ==
    [][ /\ ~liveStarted => ~liveStarted'
        /\ lastEvent'.kind = "stats" =>
             /\ ~liveStarted'
             /\ \E i \in DOMAIN out' : out'[i].kind = "recap"
             /\ \A i \in DOMAIN out' : ~out'[i].live
      ]_vars

\* C8 witness: RunStats arrived with the live region started, and the recap
\* was written with it stopped.
RecapAfterLive ==
    /\ lastEvent.kind = "stats"
    /\ lastEvent.wasLive
    /\ ~liveStarted
    /\ \E i \in DOMAIN out : out[i].kind = "recap" /\ ~out[i].live

PayloadLines == {i \in DOMAIN out : out[i].kind = "payload"}

\* C5: a finished task writes at most one result payload: the comprehensive
\* form when the comprehensive predicate holds, else the reduced form when the
\* reduced predicate holds, else none; no other event writes a payload.
OnePayloadPerFinish ==
    /\ Cardinality(PayloadLines) <= 1
    /\ \A i \in PayloadLines :
         /\ lastEvent.kind = "finished"
         /\ lastEvent.comp => out[i].shape = "comprehensive"
         /\ ~lastEvent.comp => (lastEvent.red /\ out[i].shape = "reduced")

\* C5 witness: both predicates held for a finished task and the comprehensive
\* payload was written.
ComprehensiveOverReduced ==
    /\ lastEvent.kind = "finished"
    /\ lastEvent.comp
    /\ lastEvent.red
    /\ \E i \in PayloadLines : out[i].shape = "comprehensive"

\* C9: once a resolution of the user transformer has failed, no later event
\* attempts the resolution.
ResolutionNotRetried ==
    [][ resolutionFailed => lastEvent'.resolve = "none" ]_vars

NoLogCensoredAtVerbosityZero ==
    (call.fn = "shape" /\ ret.done /\ call.task.no_log /\ call.vb = 0) =>
       /\ ret.val = CensoredNoLogResponse
       /\ (DOMAIN ret.val) \cap (DOMAIN call.result) = {}
       /\ \A k \in (DOMAIN call.result) \ {"changed", "skipped", "diff"} :
             \A j \in DOMAIN ret.val : ret.val[j] # call.result[k]

\* C7 witness: the reduced shaper censored a result that holds a message.
MessageCensored ==
    /\ call.fn = "shape"
    /\ ret.done
    /\ call.form = "reduced"
    /\ call.task.no_log
    /\ call.vb = 0
    /\ "msg" \in DOMAIN call.result
    /\ ret.val = CensoredNoLogResponse

\* a control byte's placeholder, any other character itself
PlaceholderOf(ch) ==
    CASE ch = 7   -> <<60, 66, 69, 76, 62>>
      [] ch = 8   -> <<60, 66, 83, 62>>
      [] ch = 12  -> <<60, 70, 70, 62>>
      [] ch = 13  -> <<60, 67, 82, 62>>
      [] ch = 27  -> <<60, 69, 83, 67, 62>>
      [] ch = 127 -> <<60, 68, 69, 76, 62>>
      [] OTHER    -> <<ch>>

RECURSIVE EachReplaced(_)
EachReplaced(s) ==
    IF s = <<>> THEN <<>> ELSE PlaceholderOf(Head(s)) \o EachReplaced(Tail(s))

\* C10: Sanitizer.transform returns the text with each control byte replaced
\* by its placeholder and every other character in place, and transforming the
\* returned text again returns it unchanged.
SanitizerReplacesAndIsIdempotent ==
    (call.fn = "sanitize" /\ ret.done) =>
       /\ ret.val = EachReplaced(call.s)
       /\ SanitizerTransform(ret.val) = ret.val

\* C10 witness: ESC, tab, "<" came back as "<ESC>", tab, "<".
EscReplacedTabKept ==
    /\ call.fn = "sanitize"
    /\ ret.done
    /\ call.s = <<27, 9, 60>>
    /\ ret.val = <<60, 69, 83, 67, 62, 9, 60>>

\* w has the shape of v, with each str leaf replaced by what the callback returns
RECURSIVE SameShape(_, _, _)
SameShape(v, w, callback) ==
    /\ w.t = v.t
    /\ w.keys = v.keys
    /\ w.s = (IF v.t = "str" THEN TransformCallback(callback, v.s) ELSE v.s)
    /\ DOMAIN w.items = DOMAIN v.items
    /\ \A i \in DOMAIN v.items : SameShape(v.items[i], w.items[i], callback)

\* C11: transform_dict returns a value of the argument's shape (same types,
\* keys, lengths and order, scalars unchanged, each str leaf replaced by the
\* callback's result), and the argument itself under the Identity transformer.
TransformKeepsShape ==
    (call.fn = "transform_dict" /\ ret.done) =>
       /\ SameShape(call.data, ret.val, call.callback)
       /\ call.callback = "Identity" => ret.val = call.data

\* C12: the recap table has one row per processed host, the rows in
\* increasing order of host name whatever the order of arrival, and each row's
\* color is failed if the host's failed or unreachable count is not 0, else
\* changed if its changed count is not 0, else ok.
RecapSortedAndColored ==
    (call.fn = "recap" /\ ret.done) =>
       /\ Len(ret.val) = Len(call.stats)
       /\ {ret.val[i].host : i \in DOMAIN ret.val}
            = {call.stats[j].host : j \in DOMAIN call.stats}
       /\ \A i \in DOMAIN ret.val, j \in DOMAIN ret.val :
             i < j => PyStrLess(ret.val[i].host, ret.val[j].host)
       /\ \A i \in DOMAIN ret.val : \A j \in DOMAIN call.stats :
             call.stats[j].host = ret.val[i].host =>
                ret.val[i].color =
                   (IF call.stats[j].failures > 0 \/ call.stats[j].unreachable > 0
                    THEN "rlo.task.result.failed"
                    ELSE IF call.stats[j].changed > 0 THEN "rlo.task.result.changed"
                    ELSE "rlo.task.result.ok")

\* C12 witness: "h2" (unreachable and changed), "h10" (changed) and "h1" arrived
\* in this order; the rows are "h1" ok, "h10" changed, "h2" failed.
RecapOfThreeHosts ==
    /\ call.fn = "recap"
    /\ ret.done
    /\ Processed(call.stats) = << <<104, 50>>, <<104, 49, 48>>, <<104, 49>> >>
    /\ ret.val = << [host |-> <<104, 49>>, color |-> "rlo.task.result.ok"],
                    [host |-> <<104, 49, 48>>, color |-> "rlo.task.result.changed"],
                    [host |-> <<104, 50>>, color |-> "rlo.task.result.failed"] >>
    /\ Summarize(call.stats, <<104, 50>>).unreachable = 1
    /\ Summarize(call.stats, <<104, 50>>).changed = 1
    /\ Summarize(call.stats, <<104, 50>>).failures = 0

\* C13: a duration of k milliseconds below 1 s is rendered as ".mmm", and one
\* of 60 s or more as "H:MM:SS.mmm", where H, MM, SS and mmm are the hours,
\* minutes, seconds and milliseconds of k.
TimeShowsTrueDigits ==
    (call.fn = "format" /\ ret.done) =>
       /\ call.millis < 1000 => ret.val = <<46>> \o ZeroPad(Digits(call.millis), 3)
       /\ call.millis >= 60000 =>
            ret.val = Digits(call.millis \div 3600000) \o <<58>>
                        \o ZeroPad(Digits((call.millis \div 60000) % 60), 2) \o <<58>>
                        \o ZeroPad(Digits((call.millis \div 1000) % 60), 2) \o <<46>>
                        \o ZeroPad(Digits(call.millis % 1000), 3)

HostsIndependent ==
    [][ /\ \A g \in Hosts \ {lastEvent'.host} :
             /\ hosts'[g] = hosts[g]
             /\ \A id \in DOMAIN tasks : tasks[id].host = g =>
                   (id \in DOMAIN tasks' /\ tasks'[id] = tasks[id])
             /\ \A id \in DOMAIN tasks' : tasks'[id].host = g => id \in DOMAIN tasks
        /\ (lastEvent'.kind = "finished" /\ hosts[lastEvent'.host] \in DOMAIN tasks) =>
             /\ tasks[hosts[lastEvent'.host]].host = lastEvent'.host
             /\ \A i \in DOMAIN out' : out'[i].kind = "log" =>
                   out'[i].elapsed = clock - tasks[hosts[lastEvent'.host]].start
      ]_vars

\* C15 witness: a host's finished task is logged with an elapsed time of 1
\* while the other host has a live slot that was created later.
ElapsedOfOwnSlot ==
    /\ lastEvent.kind = "finished"
    /\ \E i \in DOMAIN out : out[i].kind = "log" /\ out[i].elapsed = 1
    /\ \E g \in Hosts \ {lastEvent.host} :
          /\ hosts[g] \in DOMAIN tasks
          /\ tasks[hosts[g]].start = clock

\* the log lines: the lines _log writes for a handler, the banner aside
LogKinds == {"log", "retry", "play", "notify", "nohosts"}

\* C16: when a handler writes a log line while the should-print flag is armed
\* (a TaskRetried, PlayStarted, HostNotified or NoHostsMatched, or a
\* TaskFinished of the current role), the banner of the current role is the
\* line before it, it is written once, and afterwards lastPrintedRole is the
\* current role and the flag is cleared.
BannerBeforeNextLogLine ==
    [][ ( /\ shouldPrintRole
          /\ \/ lastEvent'.kind \in {"retry", "play", "notify", "nohosts"}
             \/ lastEvent'.kind = "finished" /\ currentRole' = currentRole
          /\ \E i \in DOMAIN out' : out'[i].kind \in LogKinds )
        => /\ out'[1].kind = "banner"
           /\ out'[1].role = currentRole
           /\ Banners(out') = 1
           /\ out'[2].kind \in LogKinds
           /\ lastPrintedRole' = currentRole'
           /\ ~shouldPrintRole'
      ]_vars

\* C17: every string leaf of a written payload or diff is the user
\* transformer's output for the sanitizer's output for the leaf of the object
\* being printed: sanitizer first, user transformer second, none skipped.
SanitizedThenTransformed ==
    \A i \in DOMAIN out :
        out[i].kind \in {"payload", "diff"} =>
            /\ transformerUser # PyNone
            /\ Len(out[i].text) = Len(out[i].raw)
            /\ \A j \in DOMAIN out[i].raw :
                   out[i].text[j] =
                       TransformCallback(transformerUser, SanitizerTransform(out[i].raw[j]))

\* a payload whose stdout starts with ESC is written under the user's own
\* transformer: the two orders of the stages would differ
EscPayloadWritten ==
    /\ transformerUser = "Highlight"
    /\ \E i \in DOMAIN out :
           /\ out[i].kind = "payload"
           /\ \E j \in DOMAIN out[i].raw : out[i].raw[j] = CodePoints("ESC[1mbold")

ConsistentAfterPrintFailure ==
    [][ /\ (lastEvent'.kind = "finished" /\ lastEvent'.raised = "PrintError")
           => /\ hosts[lastEvent'.host] \notin DOMAIN tasks'
              /\ \A id \in DOMAIN tasks :
                    tasks[id].host # lastEvent'.host
                       => (id \in DOMAIN tasks' /\ tasks'[id] = tasks[id])
        /\ ( /\ lastEvent.kind = "finished"
             /\ lastEvent.raised = "PrintError"
             /\ currentRole' = currentRole )
           => \A i \in DOMAIN out, j \in DOMAIN out' :
                 ~(out[i].kind = "banner" /\ out'[j].kind = "banner")
      ]_vars

\* C20: _should_print_comprehensive_task_result is true exactly when
\* verbosity > 3, or the status is failed, or the task is a debug action
\* without no_log; _should_print_reduced_task_result is true exactly when
\* verbosity > 1, or the status is ok and the result changed something.
ShouldPrintTruthTable ==
    /\ (call.fn = "should_print_comprehensive" /\ ret.done) =>
          ret.val = ( \/ call.vb > 3
                      \/ call.status = "failed"
                      \/ call.task.action = "debug" /\ ~call.task.no_log )
    /\ (call.fn = "should_print_reduced" /\ ret.done) =>
          ret.val = ( \/ call.vb > 1
                      \/ call.status = "ok" /\ call.changed )

\* an unreachable host's task at verbosity 0 selects no comprehensive payload
UnreachableNotComprehensive ==
    /\ call.fn = "should_print_comprehensive"
    /\ ret.done
    /\ call.vb = 0
    /\ call.status = "unreachable"
    /\ call.task.action = "command"
    /\ ret.val = FALSE

\* C21: after every handled event an armed should-print flag means that
\* currentRole is not "None" and differs from lastPrintedRole; every banner
\* written is for a role that is not "None" and not the role of the banner
\* written last, which lastPrintedRole records.
RoleContextInvariant ==
    [][ /\ shouldPrintRole' =>
             (currentRole' \notin {"None", PyNone} /\ currentRole' # lastPrintedRole')
        /\ \A i \in DOMAIN out' :
              out'[i].kind = "banner" =>
                  /\ out'[i].role \notin {"None", PyNone}
                  /\ out'[i].role # lastPrintedRole
                  /\ lastPrintedRole' = out'[i].role
        /\ lastPrintedRole' # lastPrintedRole => Banners(out') = 1
      ]_vars

\* a finished task of role "web" that is not logged arms the flag after the
\* banner of "db" was the last one written
FlagArmedAfterOtherBanner ==
    /\ lastEvent.kind = "finished"
    /\ out = <<>>
    /\ shouldPrintRole
    /\ currentRole = "web"
    /\ lastPrintedRole = "db"

\* C22: a banner is written only in front of a line of a task of the banner's
\* role: the event whose handler writes the banner of role R is a TaskFinished
\* or a TaskRetried of a task of role R.
BannerOnlyBeforeOwnRole ==
    [][ \A i \in DOMAIN out' :
            out'[i].kind = "banner" => lastEvent'.role = out'[i].role ]_vars

\* C23: the handling of a finished no_log task at verbosity <= 2 writes no
\* diff, and no payload but the censored placeholder.
NoLogWritesNoResult ==
    (lastEvent.kind = "finished" /\ lastEvent.no_log /\ env.verbosity <= 2) =>
        \A i \in DOMAIN out :
            /\ out[i].kind # "diff"
            /\ out[i].kind = "payload" =>
                   out[i].raw = <<CodePoints(CensoredNoLogResponse.censored)>>

\* the place of a line in what a finished task writes
OrderOf(kind) ==
    CASE kind = "banner" -> 0
      [] kind = "log" -> 1
      [] kind = "diff" -> 2
      [] kind = "payload" -> 3
      [] kind = "path" -> 4

\* C24: what the handling of one TaskFinished writes is in the order log line,
\* diff, payload, task path, and a diff or a payload is written only after the
\* task's log line.
LogLineBeforeDiffAndPayload ==
    (lastEvent.kind = "finished" /\ lastEvent.raised = "none") =>
        /\ \A i, j \in DOMAIN out : i < j => OrderOf(out[i].kind) < OrderOf(out[j].kind)
        /\ \A j \in DOMAIN out :
              out[j].kind \in {"diff", "payload"} =>
                  \E i \in 1..(j - 1) : out[i].kind = "log"

====
